---- MODULE Spec2Model ----
(***************************************************************************)
(* Model of app/lib/data.ts: the eight read-only fetch functions of the    *)
(* invoicing dashboard, the SQL they send (evaluated over a small store)   *)
(* and the shaping of the rows they return.                                *)
(*                                                                         *)
(* Text is a tuple of one-character strings, so that ILIKE, ::text casts,  *)
(* Number(...) and the currency format are computed, not assumed.          *)
(***************************************************************************)
EXTENDS Integers, Sequences, FiniteSets, TLC

VARIABLES
  store,     \* the tables: customers, invoices, revenue
  call,      \* the fetch function called last, its arguments and how far it got
  result,    \* what the call returned
  thrown,    \* what the call threw
  log,       \* what the call wrote with console.error
  issued,    \* how many SQL queries the call sent
  promises,  \* fetchCardData's three query promises
  seen       \* the pages of one listing fetched so far, page 1 first

vars == <<store, call, result, thrown, log, issued, promises, seen>>

(***************************************************************************)
(* Bounds of the model.                                                    *)
(***************************************************************************)
MaxInvoices == 7   \* rows of the invoices table, listing specification
MaxSmall == 3      \* rows of the invoices table, specification of all functions
MaxCustomers == 3  \* rows of the customers table
MaxPage == 3       \* page numbers asked for

(***************************************************************************)
(* Program constants.                                                      *)
(***************************************************************************)
ITEMS_PER_PAGE == 6
LATEST_LIMIT == 5
CENTS_PER_UNIT == 100

(***************************************************************************)
(* Text.                                                                   *)
(***************************************************************************)
DigitChars == <<"0", "1", "2", "3", "4", "5", "6", "7", "8", "9">>
UpperChars == <<"A", "B", "C", "D", "E", "F", "G", "H", "I", "J", "K", "L", "M",
                "N", "O", "P", "Q", "R", "S", "T", "U", "V", "W", "X", "Y", "Z">>
LowerChars == <<"a", "b", "c", "d", "e", "f", "g", "h", "i", "j", "k", "l", "m",
                "n", "o", "p", "q", "r", "s", "t", "u", "v", "w", "x", "y", "z">>

\* Case folding as ILIKE does it: an upper-case letter becomes its lower-case one.
Lower(c) ==
  IF \E i \in 1..Len(UpperChars) : UpperChars[i] = c
  THEN LowerChars[CHOOSE i \in 1..Len(UpperChars) : UpperChars[i] = c]
  ELSE c

\* integer::text, and String(n) of a non-negative integer: its decimal digits.
RECURSIVE NatText(_)
NatText(n) ==
  IF n < 10 THEN <<DigitChars[n + 1]>>
  ELSE NatText(n \div 10) \o <<DigitChars[(n % 10) + 1]>>

DigitValue(c) == (CHOOSE i \in 1..Len(DigitChars) : DigitChars[i] = c) - 1

\* Number(s) of a decimal text.
RECURSIVE ParseNat(_)
ParseNat(s) ==
  IF s = <<>> THEN 0
  ELSE 10 * ParseNat(SubSeq(s, 1, Len(s) - 1)) + DigitValue(s[Len(s)])

\* date::text, ISO style; the model's dates are days of January 2024.
DateText(d) ==
  <<"2", "0", "2", "4", "-", "0", "1", "-">>
    \o <<DigitChars[(d \div 10) + 1], DigitChars[(d % 10) + 1]>>

\* text ILIKE pattern: '%' matches any run of characters, '_' any one
\* character, every other character itself up to case.
RECURSIVE ILike(_, _)
ILike(s, p) ==
  IF p = <<>> THEN s = <<>>
  ELSE IF Head(p) = "%"
    THEN ILike(s, Tail(p)) \/ (s # <<>> /\ ILike(Tail(s), p))
    ELSE /\ s # <<>>
         /\ (Head(p) = "_" \/ Lower(Head(p)) = Lower(Head(s)))
         /\ ILike(Tail(s), Tail(p))

\* const like = '%' + query + '%'
LikePattern(query) == <<"%">> \o query \o <<"%">>

\* ORDER BY name ASC: the rank of a character, then texts compared left to right.
CharRank(c) ==
  LET l == Lower(c) IN
  IF \E i \in 1..Len(LowerChars) : LowerChars[i] = l
  THEN 100 + (CHOOSE i \in 1..Len(LowerChars) : LowerChars[i] = l)
  ELSE IF \E i \in 1..Len(DigitChars) : DigitChars[i] = l
  THEN 50 + (CHOOSE i \in 1..Len(DigitChars) : DigitChars[i] = l)
  ELSE 0

RECURSIVE TextLeq(_, _)
TextLeq(a, b) ==
  IF a = <<>> THEN TRUE
  ELSE IF b = <<>> THEN FALSE
  ELSE IF CharRank(Head(a)) # CharRank(Head(b))
    THEN CharRank(Head(a)) < CharRank(Head(b))
    ELSE TextLeq(Tail(a), Tail(b))

(***************************************************************************)
(* Values as the database client hands them to JavaScript.                 *)
(***************************************************************************)
JsNumber(n) == [t |-> "number", n |-> n, s |-> <<>>]
JsString(s) == [t |-> "string", n |-> 0, s |-> s]
JsNull == [t |-> "null", n |-> 0, s |-> <<>>]

\* x ?? d
Coalesce(x, d) == IF x.t \in {"null", "undefined"} THEN d ELSE x

\* Number(x) for the values that occur: a number, a decimal text, null.
ToNumber(x) == IF x.t = "number" THEN x.n ELSE IF x.t = "string" THEN ParseNat(x.s) ELSE 0

\* Number.isFinite(x): true of numbers only; a text is not converted first.
NumberIsFinite(x) == x.t = "number"

\* formatCurrency of ./utils: the amount in cents as a dollar text, the
\* argument converted to a number as JavaScript's division does.
FormatCurrency(x) ==
  LET cents == ToNumber(x) IN
  <<"$">> \o NatText(cents \div CENTS_PER_UNIT) \o <<".">>
    \o <<DigitChars[((cents % CENTS_PER_UNIT) \div 10) + 1], DigitChars[(cents % 10) + 1]>>

(***************************************************************************)
(* The store: customers, invoices, revenue.  Every invoice refers to an    *)
(* existing customer; ids are unique.                                      *)
(***************************************************************************)
Paid == <<"p", "a", "i", "d">>
Pending == <<"p", "e", "n", "d", "i", "n", "g">>
Canceled == <<"c", "a", "n", "c", "e", "l", "e", "d">>

CustomerCatalog ==
  << [name |-> <<"B", "o">>, email |-> <<"B", "O", "@", "y">>, image_url |-> JsNull],
     [name |-> <<"A", "l">>, email |-> <<"a", "l", "@", "x">>,
      image_url |-> JsString(<<"a", ".", "p">>)],
     [name |-> <<"J", "a", "n", "e">>, email |-> <<"j", "@", "z">>,
      image_url |-> JsString(<<"j", ".", "p">>)] >>

CustomerAt(j) ==
  IF j <= Len(CustomerCatalog)
  THEN [id |-> j] @@ CustomerCatalog[j]
  ELSE [id |-> j, name |-> <<"C">> \o NatText(j),
        email |-> <<"c">> \o NatText(j) \o <<"@", "w">>, image_url |-> JsNull]

InvoiceKinds ==
  << [customer_id |-> 1, amount |-> 1500, status |-> Paid],
     [customer_id |-> 1, amount |-> 250, status |-> Pending],
     [customer_id |-> 2, amount |-> 30, status |-> Canceled],
     [customer_id |-> 2, amount |-> 915, status |-> Paid] >>

DateLayouts == {"distinct", "pairs"}

\* The date of the i-th invoice: all dates different, or two invoices a day.
DateAt(i, layout) == IF layout = "distinct" THEN i ELSE (i + 1) \div 2

InvoiceAt(i, kind, layout) ==
  [id |-> i, date |-> DateAt(i, layout)] @@ InvoiceKinds[kind]

RevenueRows ==
  << [month |-> "Jan", revenue |-> 2000], [month |-> "Feb", revenue |-> 1800] >>

\* The tables with at most maxInv invoices, their kinds in catalog order,
\* and a number of customers drawn from custCounts.
Stores(maxInv, custCounts) ==
  { [customers |-> [j \in 1..x[1] |-> CustomerAt(j)],
     invoices |-> [i \in 1..Len(x[2]) |-> InvoiceAt(i, x[2][i], x[3])],
     revenue |-> RevenueRows] :
      x \in { y \in custCounts
                     \X (UNION { [1..n -> 1..Len(InvoiceKinds)] : n \in 0..maxInv })
                     \X DateLayouts :
                /\ \A i \in 1..Len(y[2]) : InvoiceKinds[y[2][i]].customer_id <= y[1]
                /\ \A i \in 1..(Len(y[2]) - 1) : y[2][i] <= y[2][i + 1] } }

\* What a caller may type into the search box.
Queries ==
  { <<>>, <<"A", "L">>, <<"p", "a">>, <<"5">>, <<"_">>, <<"z", "z">> }

StorageErrors == {"ECONNREFUSED", "syntax error"}

\* How the client hands over a SUM: bigint and numeric sums arrive as decimal
\* text, floating point sums as numbers.
SumTypes == {"string", "number"}

(***************************************************************************)
(* The SQL of the queries, evaluated over a store.                         *)
(***************************************************************************)
Range(f) == { f[i] : i \in DOMAIN f }

CustomerOf(st, inv) == CHOOSE c \in Range(st.customers) : c.id = inv.customer_id

\* FROM invoices JOIN customers ON invoices.customer_id = customers.id
JoinedInvoices(st) ==
  { inv \in Range(st.invoices) : \E c \in Range(st.customers) : c.id = inv.customer_id }

\* The WHERE clause of fetchFilteredInvoices and fetchInvoicesPages.
InvoiceFilter(st, inv, like) ==
  LET c == CustomerOf(st, inv) IN
  \/ ILike(c.name, like)
  \/ ILike(c.email, like)
  \/ ILike(NatText(inv.amount), like)
  \/ ILike(DateText(inv.date), like)
  \/ ILike(inv.status, like)

FilteredInvoices(st, query) ==
  { inv \in JoinedInvoices(st) : InvoiceFilter(st, inv, LikePattern(query)) }

\* ORDER BY invoices.date DESC: every order of the rows in which no row comes
\* before a row of a later date; rows of one date come in any order.
RECURSIVE DateDescOrders(_)
DateDescOrders(rows) ==
  IF rows = {} THEN { <<>> }
  ELSE UNION { { <<r>> \o t : t \in DateDescOrders(rows \ {r}) } :
               r \in { r \in rows : \A o \in rows : o.date <= r.date } }

\* LIMIT limit OFFSET offset
LimitOffset(rows, limit, offset) ==
  SubSeq(rows, offset + 1, IF offset + limit < Len(rows) THEN offset + limit ELSE Len(rows))

\* SELECT COUNT(*): one row, the count a bigint, handed over as decimal text.
CountRows(n) == << [count |-> JsString(NatText(n))] >>

RECURSIVE SumAmounts(_)
SumAmounts(rows) ==
  IF rows = {} THEN 0
  ELSE LET r == CHOOSE r \in rows : TRUE IN r.amount + SumAmounts(rows \ {r})

\* SUM(CASE WHEN status = s THEN amount ELSE 0 END) over rows: NULL over no
\* rows at all, else the sum in the client's representation.
SumWhere(rows, status, sumType) ==
  IF rows = {} THEN JsNull
  ELSE LET n == SumAmounts({ r \in rows : r.status = status }) IN
       IF sumType = "number" THEN JsNumber(n) ELSE JsString(NatText(n))

\* COUNT(invoices.id) and the two SUM(CASE ...) of one customer's group of the
\* LEFT JOIN: a customer without invoices has one row of NULLs, which COUNT
\* skips and for which each CASE yields its ELSE 0.
CustomerGroup(st, c, sumType) ==
  LET own == { inv \in Range(st.invoices) : inv.customer_id = c.id }
      sum(status) == LET n == SumAmounts({ r \in own : r.status = status }) IN
                     IF sumType = "number" THEN JsNumber(n) ELSE JsString(NatText(n))
  IN [id |-> c.id, name |-> c.name, email |-> c.email, image_url |-> c.image_url,
      total_invoices |-> JsString(NatText(Cardinality(own))),
      total_pending |-> sum(Pending),
      total_paid |-> sum(Paid)]

\* ORDER BY name ASC over a set of rows: every order in which no row comes
\* before a row of a smaller name.
RECURSIVE NameAscOrders(_)
NameAscOrders(rows) ==
  IF rows = {} THEN { <<>> }
  ELSE UNION { { <<r>> \o t : t \in NameAscOrders(rows \ {r}) } :
               r \in { r \in rows : \A o \in rows : TextLeq(r.name, o.name) } }

\* Math.ceil(a / b) for a >= 0, b > 0
Ceil(a, b) == (a + b - 1) \div b

(***************************************************************************)
(* The fetch functions: what each returns from the rows of its query.      *)
(***************************************************************************)
\* The message of the error each function throws from its catch block.
FailMessage(fn) ==
  CASE fn = "fetchRevenue" -> "Failed to fetch revenue data."
    [] fn = "fetchLatestInvoices" -> "Failed to fetch the latest invoices."
    [] fn = "fetchCardData" -> "Failed to fetch card data."
    [] fn = "fetchFilteredInvoices" -> "Failed to fetch invoices."
    [] fn = "fetchInvoicesPages" -> "Failed to fetch total number of invoices."
    [] fn = "fetchInvoiceById" -> "Failed to fetch invoice."
    [] fn = "fetchCustomers" -> "Failed to fetch all customers."
    [] fn = "fetchFilteredCustomers" -> "Failed to fetch customer table."

\* How many queries each function sends.
QueriesOf(fn) == IF fn = "fetchCardData" THEN 3 ELSE 1

\* A catch block that passes the storage error on.
RethrownError(fn, error) == [message |-> error]

\* throw new Error('Failed to fetch ...')
ThrownError(fn, error) == [message |-> FailMessage(fn)]

\* console.error('Database Error (fn):', error)
LogEntry(fn, error) == [op |-> fn, error |-> error]

\* The query of fetchLatestInvoices without its LIMIT.
LatestQueryRowsNoLimit(st) == DateDescOrders(JoinedInvoices(st))

\* fetchLatestInvoices: the rows of the query, in one of its orders.
LatestQueryRows(st) ==
  { LimitOffset(o, LATEST_LIMIT, 0) : o \in DateDescOrders(JoinedInvoices(st)) }

\* rows.map(invoice => ({...invoice, amount: formatCurrency(invoice.amount)}))
LatestInvoiceRow(st, inv) ==
  LET c == CustomerOf(st, inv) IN
  [id |-> inv.id, name |-> c.name, email |-> c.email, image_url |-> c.image_url,
   amount |-> FormatCurrency(JsNumber(inv.amount))]

LatestInvoices(st) ==
  { [i \in 1..Len(rows) |-> LatestInvoiceRow(st, rows[i])] : rows \in LatestQueryRows(st) }

InvoicesTableRow(st, inv) ==
  LET c == CustomerOf(st, inv) IN
  [id |-> inv.id, amount |-> inv.amount, date |-> inv.date, status |-> inv.status,
   name |-> c.name, email |-> c.email, image_url |-> c.image_url]

\* An offset that takes the page number for the offset.
PageOffsetOffByOne(currentPage) == currentPage * ITEMS_PER_PAGE

\* const offset = (currentPage - 1) * ITEMS_PER_PAGE
PageOffset(currentPage) == (currentPage - 1) * ITEMS_PER_PAGE

\* fetchFilteredInvoices: the rows it may return.
FilteredInvoicesPage(st, query, currentPage) ==
  { [i \in 1..Len(rows) |-> InvoicesTableRow(st, rows[i])] :
      rows \in { LimitOffset(o, ITEMS_PER_PAGE, PageOffset(currentPage)) :
                 o \in DateDescOrders(FilteredInvoices(st, query)) } }

\* fetchInvoicesPages: Math.ceil(Number(rows[0]?.count ?? 0) / ITEMS_PER_PAGE)
InvoicesPages(st, query) ==
  LET rows == CountRows(Cardinality(FilteredInvoices(st, query)))
      total == ToNumber(Coalesce(rows[1].count, JsNumber(0)))
  IN Ceil(total, ITEMS_PER_PAGE)

NoValue == [kind |-> "none"]
Undefined == [kind |-> "undefined"]

\* A lookup that returns a row of zeros for an id that is not there.
InvoiceByIdDefaultRow(st, id) ==
  LET rows == { inv \in Range(st.invoices) : inv.id = id } IN
  IF rows = {}
  THEN [kind |-> "row", id |-> id, customer_id |-> 0, status |-> <<>>,
        amount |-> [units |-> 0, hundredths |-> 0]]
  ELSE LET inv == CHOOSE r \in rows : TRUE IN
       [kind |-> "row", id |-> inv.id, customer_id |-> inv.customer_id,
        status |-> inv.status,
        amount |-> [units |-> inv.amount \div CENTS_PER_UNIT,
                    hundredths |-> inv.amount % CENTS_PER_UNIT]]

\* fetchInvoiceById: undefined without a row, else the row with amount / 100.
InvoiceById(st, id) ==
  LET rows == { inv \in Range(st.invoices) : inv.id = id } IN
  IF rows = {} THEN Undefined
  ELSE LET inv == CHOOSE r \in rows : TRUE IN
       [kind |-> "row", id |-> inv.id, customer_id |-> inv.customer_id,
        status |-> inv.status,
        amount |-> [units |-> inv.amount \div CENTS_PER_UNIT,
                    hundredths |-> inv.amount % CENTS_PER_UNIT]]

\* fetchCustomers: id and name of every customer, by name.
CustomerFields(st) ==
  { [i \in 1..Len(o) |-> [id |-> o[i].id, name |-> o[i].name]] :
      o \in NameAscOrders(Range(st.customers)) }

\* The WHERE clause of fetchFilteredCustomers.
CustomerFilter(c, like) == ILike(c.name, like) \/ ILike(c.email, like)

\* A row whose totals, when they are no finite number, become a placeholder.
CustomersTableRowPlaceholder(c) ==
  [c EXCEPT !.total_pending = IF NumberIsFinite(c.total_pending)
                              THEN FormatCurrency(c.total_pending)
                              ELSE <<"N", "/", "A">>,
            !.total_paid = IF NumberIsFinite(c.total_paid)
                           THEN FormatCurrency(c.total_paid)
                           ELSE <<"N", "/", "A">>]

\* rows.map(c => ({...c, total_pending: Number.isFinite(c.total_pending)
\*   ? formatCurrency(c.total_pending) : formatCurrency(0), total_paid: ...}))
CustomersTableRow(c) ==
  [c EXCEPT !.total_pending = IF NumberIsFinite(c.total_pending)
                              THEN FormatCurrency(c.total_pending)
                              ELSE FormatCurrency(JsNumber(0)),
            !.total_paid = IF NumberIsFinite(c.total_paid)
                           THEN FormatCurrency(c.total_paid)
                           ELSE FormatCurrency(JsNumber(0))]

FilteredCustomers(st, query, sumType) ==
  { [i \in 1..Len(o) |-> CustomersTableRow(o[i])] :
      o \in NameAscOrders({ CustomerGroup(st, c, sumType) :
                            c \in { c \in Range(st.customers) :
                                    CustomerFilter(c, LikePattern(query)) } }) }

(***************************************************************************)
(* fetchCardData's three promises and their join.                          *)
(***************************************************************************)
InvoiceCountPromise == 1
CustomerCountPromise == 2
InvoiceStatusPromise == 3
CardPromises == {InvoiceCountPromise, CustomerCountPromise, InvoiceStatusPromise}

Unissued == [st |-> "unissued", rows |-> <<>>, error |-> ""]
PendingPromise == [st |-> "pending", rows |-> <<>>, error |-> ""]

\* The rows of each of the three queries.
CardQueryRows(st, i, sumType) ==
  CASE i = InvoiceCountPromise -> CountRows(Len(st.invoices))
    [] i = CustomerCountPromise -> CountRows(Len(st.customers))
    [] i = InvoiceStatusPromise ->
         << [paid |-> SumWhere(Range(st.invoices), Paid, sumType),
             pending |-> SumWhere(Range(st.invoices), Pending, sumType)] >>

\* A join that waits until every promise has settled.
PromiseAllSettledFirst(ps) ==
  IF \E i \in DOMAIN ps : ps[i].st = "pending" THEN "pending"
  ELSE IF \E i \in DOMAIN ps : ps[i].st = "rejected" THEN "rejected"
  ELSE "fulfilled"

\* Promise.all: rejected as soon as one promise is, fulfilled once all are.
PromiseAll(ps) ==
  IF \E i \in DOMAIN ps : ps[i].st = "rejected" THEN "rejected"
  ELSE IF \A i \in DOMAIN ps : ps[i].st = "fulfilled" THEN "fulfilled"
  ELSE "pending"

\* A summary with the two totals exchanged.
CardSummarySwapped(ps) ==
  [kind |-> "summary",
   numberOfCustomers |-> ToNumber(Coalesce(ps[CustomerCountPromise].rows[1].count, JsString(<<"0">>))),
   numberOfInvoices |-> ToNumber(Coalesce(ps[InvoiceCountPromise].rows[1].count, JsString(<<"0">>))),
   totalPaidInvoices |->
     FormatCurrency(Coalesce(ps[InvoiceStatusPromise].rows[1].pending, JsNumber(0))),
   totalPendingInvoices |->
     FormatCurrency(Coalesce(ps[InvoiceStatusPromise].rows[1].paid, JsNumber(0)))]

\* The object fetchCardData returns from the three results.
CardSummary(ps) ==
  [kind |-> "summary",
   numberOfCustomers |-> ToNumber(Coalesce(ps[CustomerCountPromise].rows[1].count, JsString(<<"0">>))),
   numberOfInvoices |-> ToNumber(Coalesce(ps[InvoiceCountPromise].rows[1].count, JsString(<<"0">>))),
   totalPaidInvoices |->
     FormatCurrency(Coalesce(ps[InvoiceStatusPromise].rows[1].paid, JsNumber(0))),
   totalPendingInvoices |->
     FormatCurrency(Coalesce(ps[InvoiceStatusPromise].rows[1].pending, JsNumber(0)))]

(***************************************************************************)
(* State.                                                                  *)
(***************************************************************************)
NoCall == [fn |-> "none", query |-> <<>>, page |-> 0, id |-> 0, phase |-> "idle"]
NothingSeen == [query |-> <<>>, pages |-> <<>>]

InitWith(stores) ==
  /\ store \in stores
  /\ call = NoCall
  /\ result = NoValue
  /\ thrown = <<>>
  /\ log = <<>>
  /\ issued = 0
  /\ promises = [i \in CardPromises |-> Unissued]
  /\ seen = NothingSeen

Init == InitWith(Stores(MaxSmall, 0..MaxCustomers))

InitListing == InitWith(Stores(MaxInvoices, {MaxCustomers}))

\* The functions share no state: a behaviour is one call on one store, or
\* one listing fetched page after page.
Quiet == call.phase = "idle"

\* A call of one query that returned value.
Returns(fn, query, page, id, value) ==
  /\ call' = [fn |-> fn, query |-> query, page |-> page, id |-> id, phase |-> "returned"]
  /\ result' = value
  /\ thrown' = <<>>
  /\ log' = <<>>
  /\ issued' = 1
  /\ promises' = [i \in CardPromises |-> Unissued]

\* A call whose query failed with error: the catch block logs and throws.
Throws(fn, query, page, id, error) ==
  /\ call' = [fn |-> fn, query |-> query, page |-> page, id |-> id, phase |-> "thrown"]
  /\ result' = NoValue
  /\ thrown' = <<ThrownError(fn, error)>>
  /\ log' = <<LogEntry(fn, error)>>
  /\ issued' = 1
  /\ promises' = [i \in CardPromises |-> Unissued]

Rows(rows) == [kind |-> "rows", rows |-> rows]

(***************************************************************************)
(* The calls.                                                              *)
(***************************************************************************)
FetchRevenue ==
  /\ Quiet
  /\ \/ Returns("fetchRevenue", <<>>, 0, 0, Rows(store.revenue))
     \/ \E e \in StorageErrors : Throws("fetchRevenue", <<>>, 0, 0, e)
  /\ seen' = NothingSeen
  /\ UNCHANGED store

FetchLatestInvoices ==
  /\ Quiet
  /\ \/ \E rows \in LatestInvoices(store) :
          Returns("fetchLatestInvoices", <<>>, 0, 0, Rows(rows))
     \/ \E e \in StorageErrors : Throws("fetchLatestInvoices", <<>>, 0, 0, e)
  /\ seen' = NothingSeen
  /\ UNCHANGED store

\* The three queries are sent, then the function awaits their join.
FetchCardData ==
  /\ Quiet
  /\ call' = [NoCall EXCEPT !.fn = "fetchCardData", !.phase = "pending"]
  /\ promises' = [i \in CardPromises |-> PendingPromise]
  /\ issued' = Cardinality(CardPromises)
  /\ result' = NoValue
  /\ thrown' = <<>>
  /\ log' = <<>>
  /\ seen' = NothingSeen
  /\ UNCHANGED store

\* What fetchCardData does when the promises have become ps: nothing while
\* their join is pending or once the function has ended; else it returns the
\* summary, or logs and throws.
CardContinues(ps) ==
  IF call.phase = "pending" /\ PromiseAll(ps) = "fulfilled"
  THEN /\ call' = [call EXCEPT !.phase = "returned"]
       /\ result' = CardSummary(ps)
       /\ UNCHANGED <<thrown, log>>
  ELSE IF call.phase = "pending" /\ PromiseAll(ps) = "rejected"
  THEN LET i == CHOOSE i \in CardPromises : ps[i].st = "rejected" IN
       /\ call' = [call EXCEPT !.phase = "thrown"]
       /\ thrown' = <<ThrownError("fetchCardData", ps[i].error)>>
       /\ log' = Append(log, LogEntry("fetchCardData", ps[i].error))
       /\ UNCHANGED result
  ELSE UNCHANGED <<call, result, thrown, log>>

\* One of the three queries succeeds.
PromiseFulfils(i) ==
  /\ promises[i].st = "pending"
  /\ \E sumType \in SumTypes :
       LET ps == [promises EXCEPT ![i] = [st |-> "fulfilled",
                                          rows |-> CardQueryRows(store, i, sumType),
                                          error |-> ""]]
       IN promises' = ps /\ CardContinues(ps)
  /\ UNCHANGED <<store, issued, seen>>

\* One of the three queries fails.
PromiseRejects(i) ==
  /\ promises[i].st = "pending"
  /\ \E e \in StorageErrors :
       LET ps == [promises EXCEPT ![i] = [st |-> "rejected", rows |-> <<>>, error |-> e]]
       IN promises' = ps /\ CardContinues(ps)
  /\ UNCHANGED <<store, issued, seen>>

\* The pages of one listing, as long as they are asked for in order.
SeenAfter(query, page, rows) ==
  LET ids == [i \in 1..Len(rows) |-> rows[i].id] IN
  IF page = 1 THEN [query |-> query, pages |-> <<ids>>]
  ELSE IF seen.pages # <<>> /\ seen.query = query /\ page = Len(seen.pages) + 1
  THEN [seen EXCEPT !.pages = Append(@, ids)]
  ELSE NothingSeen

FetchFilteredInvoices ==
  /\ \E query \in Queries, page \in 1..MaxPage :
       /\ \/ Quiet
          \/ /\ call.fn = "fetchFilteredInvoices" /\ call.phase = "returned"
             /\ seen.pages # <<>> /\ query = seen.query /\ page = Len(seen.pages) + 1
       /\ \/ \E rows \in FilteredInvoicesPage(store, query, page) :
               /\ Returns("fetchFilteredInvoices", query, page, 0, Rows(rows))
               /\ seen' = SeenAfter(query, page, rows)
          \/ \E e \in StorageErrors :
               /\ Throws("fetchFilteredInvoices", query, page, 0, e)
               /\ seen' = NothingSeen
  /\ UNCHANGED store

FetchInvoicesPages ==
  /\ Quiet
  /\ \E query \in Queries :
       \/ Returns("fetchInvoicesPages", query, 0, 0,
                  [kind |-> "number", n |-> InvoicesPages(store, query)])
       \/ \E e \in StorageErrors : Throws("fetchInvoicesPages", query, 0, 0, e)
  /\ seen' = NothingSeen
  /\ UNCHANGED store

FetchInvoiceById ==
  /\ Quiet
  /\ \E id \in 1..(Len(store.invoices) + 1) :
       \/ Returns("fetchInvoiceById", <<>>, 0, id, InvoiceById(store, id))
       \/ \E e \in StorageErrors : Throws("fetchInvoiceById", <<>>, 0, id, e)
  /\ seen' = NothingSeen
  /\ UNCHANGED store

FetchCustomers ==
  /\ Quiet
  /\ \/ \E rows \in CustomerFields(store) : Returns("fetchCustomers", <<>>, 0, 0, Rows(rows))
     \/ \E e \in StorageErrors : Throws("fetchCustomers", <<>>, 0, 0, e)
  /\ seen' = NothingSeen
  /\ UNCHANGED store

FetchFilteredCustomers ==
  /\ Quiet
  /\ \E query \in Queries :
       \/ \E sumType \in SumTypes : \E rows \in FilteredCustomers(store, query, sumType) :
            Returns("fetchFilteredCustomers", query, 0, 0, Rows(rows))
       \/ \E e \in StorageErrors : Throws("fetchFilteredCustomers", query, 0, 0, e)
  /\ seen' = NothingSeen
  /\ UNCHANGED store

Next ==
  \/ FetchRevenue
  \/ FetchLatestInvoices
  \/ FetchCardData
  \/ \E i \in CardPromises : PromiseFulfils(i)
  \/ \E i \in CardPromises : PromiseRejects(i)
  \/ FetchFilteredInvoices
  \/ FetchInvoicesPages
  \/ FetchInvoiceById
  \/ FetchCustomers
  \/ FetchFilteredCustomers

Spec == Init /\ [][Next]_vars

\* The listing functions alone, over longer invoice tables.
NextListing ==
  \/ FetchLatestInvoices
  \/ FetchFilteredInvoices
  \/ FetchInvoicesPages

SpecListing == InitListing /\ [][NextListing]_vars

(***************************************************************************)
(* What the claims speak of.                                               *)
(***************************************************************************)
Min(a, b) == IF a < b THEN a ELSE b
Max(a, b) == IF a > b THEN a ELSE b

ZeroAmountText == <<"$", "0", ".", "0", "0">>

\* sub occurs in text, letters compared without case.
ContainsFold(text, sub) ==
  \E i \in 0..(Len(text) - Len(sub)) :
    \A j \in 1..Len(sub) : Lower(text[i + j]) = Lower(sub[j])

\* The invoices one of whose five fields contains the query.
SubstringMatches(st, query) ==
  { inv \in Range(st.invoices) :
      \E c \in Range(st.customers) :
        /\ c.id = inv.customer_id
        /\ \/ ContainsFold(c.name, query)
           \/ ContainsFold(c.email, query)
           \/ ContainsFold(NatText(inv.amount), query)
           \/ ContainsFold(DateText(inv.date), query)
           \/ ContainsFold(inv.status, query) }

InvoicesOf(st, customerId) == { inv \in Range(st.invoices) : inv.customer_id = customerId }

SumOf(st, customerIds, status) ==
  SumAmounts({ inv \in Range(st.invoices) :
               inv.customer_id \in customerIds /\ inv.status = status })

InvoiceWithId(st, id) == CHOOSE inv \in Range(st.invoices) : inv.id = id

RECURSIVE Concat(_)
Concat(pages) == IF pages = <<>> THEN <<>> ELSE Head(pages) \o Concat(Tail(pages))

Ended(fn) == call.fn = fn /\ call.phase = "returned"

\* C1: fetchInvoicesPages(query) is ceil(M / 6), M the number of invoices one
\* of whose fields (customer name, email, amount as text, date as text,
\* status) contains the query as a substring, case ignored; M is the number
\* of all invoices for the empty query, and no match gives 0 pages.
C1_PagesIsCeilOfSubstringMatches ==
  Ended("fetchInvoicesPages") =>
    LET m == Cardinality(SubstringMatches(store, call.query)) IN
    /\ result.n = Ceil(m, 6)
    /\ (call.query = <<>> => m = Len(store.invoices))
    /\ (m = 0 => result.n = 0)

\* The page count is ceil(M / 6) for M the number of rows the WHERE clause of
\* the query keeps.
PagesIsCeilOfFilterCount ==
  Ended("fetchInvoicesPages") =>
    result.n = Ceil(Cardinality(FilteredInvoices(store, call.query)), 6)

\* ILIKE '%query%' is the substring match for a query without '%' and '_'.
FilterIsSubstringMatchWithoutWildcards ==
  \A query \in Queries :
    (\A k \in 1..Len(query) : query[k] \notin {"%", "_"}) =>
      FilteredInvoices(store, query) = SubstringMatches(store, query)

\* C2: with M invoices matching the query, fetchFilteredInvoices(query, page)
\* returns min(6, max(0, M - 6 * (page - 1))) rows, never more than 6; with
\* M = 7 that is 6 rows, then 1 row, and fetchInvoicesPages gives 2.
C2_PageLength ==
  Ended("fetchFilteredInvoices") =>
    LET m == Cardinality(FilteredInvoices(store, call.query)) IN
    /\ Len(result.rows) = Min(6, Max(0, m - 6 * (call.page - 1)))
    /\ Len(result.rows) <= 6
    /\ (m = 7 => /\ InvoicesPages(store, call.query) = 2
                 /\ (call.page = 1 => Len(result.rows) = 6)
                 /\ (call.page = 2 => Len(result.rows) = 1))

C2_Witness ==
  /\ Ended("fetchFilteredInvoices")
  /\ Cardinality(FilteredInvoices(store, call.query)) = 7
  /\ call.page = 2
  /\ Len(result.rows) = 1

\* C3: a call whose storage query failed has thrown one error, with the fixed
\* message of its function whatever the storage error, which is no part of
\* the message; it logged once, under its own name; it returned nothing and
\* sent each of its queries once.
C3_FailureContract ==
  /\ call.phase = "thrown" =>
       /\ Len(thrown) = 1
       /\ thrown[1].message = FailMessage(call.fn)
       /\ thrown[1].message \notin StorageErrors
       /\ result.kind = "none"
       /\ Len(log) = 1
       /\ log[1].op = call.fn
       /\ log[1].error \in StorageErrors
       /\ issued = QueriesOf(call.fn)
  /\ call.phase = "returned" => thrown = <<>> /\ log = <<>>
  /\ (\E i \in CardPromises : promises[i].st = "rejected") => call.phase = "thrown"

C3_Witness ==
  /\ call.phase = "thrown"
  /\ call.fn = "fetchFilteredCustomers"
  /\ log = <<[op |-> "fetchFilteredCustomers", error |-> "syntax error"]>>
  /\ thrown = <<[message |-> "Failed to fetch customer table."]>>

\* C4: fetchCardData has sent its three queries before it awaits; it returns
\* a summary only when all three have succeeded; as soon as one has failed it
\* has thrown 'Failed to fetch card data.', whatever the others do, and it
\* never returns a partial summary.
C4_CardJoin ==
  call.fn = "fetchCardData" =>
    /\ \A i \in CardPromises : promises[i].st # "unissued"
    /\ issued = 3
    /\ call.phase = "returned" <=> (\A i \in CardPromises : promises[i].st = "fulfilled")
    /\ call.phase = "thrown" <=> (\E i \in CardPromises : promises[i].st = "rejected")
    /\ call.phase = "thrown" =>
         thrown = <<[message |-> "Failed to fetch card data."]>> /\ result.kind = "none"
    /\ call.phase = "returned" => result.kind = "summary" /\ thrown = <<>>
    /\ call.phase = "pending" => result.kind = "none" /\ thrown = <<>>

C4_Witness ==
  /\ call.fn = "fetchCardData"
  /\ call.phase = "thrown"
  /\ promises[InvoiceCountPromise].st = "pending"
  /\ promises[CustomerCountPromise].st = "rejected"
  /\ promises[InvoiceStatusPromise].st = "fulfilled"

\* C5: fetchInvoiceById returns undefined, without throwing or logging, when
\* no invoice has the id, and the invoice's row (its amount in units) when
\* one has.
C5_NotFoundIsUndefined ==
  Ended("fetchInvoiceById") =>
    /\ thrown = <<>> /\ log = <<>>
    /\ (\A inv \in Range(store.invoices) : inv.id # call.id) => result.kind = "undefined"
    /\ (\E inv \in Range(store.invoices) : inv.id = call.id) =>
         /\ result.kind = "row"
         /\ result.id = call.id
         /\ result.customer_id = InvoiceWithId(store, call.id).customer_id
         /\ result.status = InvoiceWithId(store, call.id).status
         /\ 100 * result.amount.units + result.amount.hundredths
              = InvoiceWithId(store, call.id).amount

C5_Witness ==
  /\ Ended("fetchInvoiceById")
  /\ Len(store.invoices) > 0
  /\ call.id = Len(store.invoices) + 1
  /\ result.kind = "undefined"

\* C6: every customer that passes the filter and has no invoice has a row in
\* the result of fetchFilteredCustomers, with total_invoices 0 and both
\* totals the formatted zero amount.
C6_NoInvoicesGivesZeros ==
  Ended("fetchFilteredCustomers") =>
    \A c \in Range(store.customers) :
      (CustomerFilter(c, LikePattern(call.query)) /\ InvoicesOf(store, c.id) = {}) =>
        /\ \E k \in 1..Len(result.rows) : result.rows[k].id = c.id
        /\ \A k \in 1..Len(result.rows) :
             result.rows[k].id = c.id =>
               /\ ToNumber(result.rows[k].total_invoices) = 0
               /\ result.rows[k].total_pending = ZeroAmountText
               /\ result.rows[k].total_paid = ZeroAmountText

C6_Witness ==
  /\ Ended("fetchFilteredCustomers")
  /\ call.query = <<"A", "L">>
  /\ Len(store.invoices) > 0
  /\ Len(result.rows) = 1
  /\ result.rows[1].name = <<"A", "l">>
  /\ InvoicesOf(store, result.rows[1].id) = {}

\* C7: fetchCardData returns the number of invoices, the number of customers
\* and the formatted sums of the paid and of the pending invoices; without
\* invoices both totals are the formatted zero amount.
C7_CardValues ==
  Ended("fetchCardData") =>
    LET ids == { inv.customer_id : inv \in Range(store.invoices) } IN
    /\ result.numberOfInvoices = Len(store.invoices)
    /\ result.numberOfCustomers = Len(store.customers)
    /\ result.totalPaidInvoices = FormatCurrency(JsNumber(SumOf(store, ids, Paid)))
    /\ result.totalPendingInvoices = FormatCurrency(JsNumber(SumOf(store, ids, Pending)))
    /\ Len(store.invoices) = 0 =>
         /\ result.totalPaidInvoices = ZeroAmountText
         /\ result.totalPendingInvoices = ZeroAmountText

C7_Witness ==
  /\ Ended("fetchCardData")
  /\ result.numberOfInvoices = 3
  /\ result.numberOfCustomers = 2
  /\ result.totalPaidInvoices = <<"$", "1", "5", ".", "0", "0">>
  /\ result.totalPendingInvoices = <<"$", "2", ".", "5", "0">>

DateOfId(st, id) == InvoiceWithId(st, id).date

\* The rows are the joined display fields of distinct invoices, latest first,
\* no invoice left out being later than one that is in.
LatestRowsAreTheLatest(rows) ==
  LET ids == { rows[k].id : k \in 1..Len(rows) } IN
  /\ \A k, l \in 1..Len(rows) : k < l =>
       /\ rows[k].id # rows[l].id
       /\ DateOfId(store, rows[k].id) >= DateOfId(store, rows[l].id)
  /\ \A inv \in Range(store.invoices) :
       inv.id \notin ids => \A k \in 1..Len(rows) : inv.date <= DateOfId(store, rows[k].id)
  /\ \A k \in 1..Len(rows) :
       LET inv == InvoiceWithId(store, rows[k].id)
           c == CHOOSE c \in Range(store.customers) : c.id = inv.customer_id
       IN /\ rows[k].name = c.name
          /\ rows[k].email = c.email
          /\ rows[k].image_url = c.image_url
          /\ rows[k].amount = FormatCurrency(JsNumber(inv.amount))

\* C8, as claimed: fetchLatestInvoices returns 5 rows whatever the store
\* holds, the 5 latest invoices with their customer's name, email and image
\* and the amount formatted.
C8_AlwaysFiveLatest ==
  Ended("fetchLatestInvoices") =>
    Len(result.rows) = 5 /\ LatestRowsAreTheLatest(result.rows)

\* C8, amended: fetchLatestInvoices returns min(5, N) rows for a store of N
\* invoices, the latest ones by date, latest first, with their customer's
\* name, email and image and the amount formatted.
C8_LatestUpToFive ==
  Ended("fetchLatestInvoices") =>
    /\ Len(result.rows) = Min(5, Len(store.invoices))
    /\ LatestRowsAreTheLatest(result.rows)

C8_Witness ==
  /\ Ended("fetchLatestInvoices")
  /\ Len(store.invoices) = 7
  /\ store.invoices[6].date = store.invoices[5].date
  /\ Len(result.rows) = 5
  /\ result.rows[5].id = 3
  /\ result.rows[1].amount = <<"$", "9", ".", "1", "5">>

\* C9: every customer that passes the filter has one row in the result of
\* fetchFilteredCustomers, with the number of its invoices and the formatted
\* sums of its pending and of its paid invoices.
C9_CustomerTotalsAreSums ==
  Ended("fetchFilteredCustomers") =>
    \A c \in Range(store.customers) :
      CustomerFilter(c, LikePattern(call.query)) =>
        /\ Cardinality({ k \in 1..Len(result.rows) : result.rows[k].id = c.id }) = 1
        /\ \A k \in 1..Len(result.rows) :
             result.rows[k].id = c.id =>
               /\ ToNumber(result.rows[k].total_invoices) = Cardinality(InvoicesOf(store, c.id))
               /\ result.rows[k].total_pending
                    = FormatCurrency(JsNumber(SumOf(store, {c.id}, Pending)))
               /\ result.rows[k].total_paid
                    = FormatCurrency(JsNumber(SumOf(store, {c.id}, Paid)))

\* The totals are the sums whenever the client hands the sums over as numbers.
CustomerTotalsAreSumsOfNumbers ==
  (Ended("fetchFilteredCustomers")
     /\ result.rows \in FilteredCustomers(store, call.query, "number")) =>
    C9_CustomerTotalsAreSums

\* C10: the pages 1 .. fetchInvoicesPages(query) of a listing, one after the
\* other, hold every invoice the filter keeps once and only once, latest
\* first, also when dates repeat; every later page is empty.
C10_PagesCoverTheMatches ==
  (Ended("fetchFilteredInvoices") /\ seen.pages # <<>>) =>
    LET total == InvoicesPages(store, seen.query)
        wanted == { inv.id : inv \in FilteredInvoices(store, seen.query) }
    IN /\ Len(seen.pages) >= total =>
            LET ids == Concat(SubSeq(seen.pages, 1, total)) IN
            /\ { ids[k] : k \in 1..Len(ids) } = wanted
            /\ Len(ids) = Cardinality(wanted)
            /\ \A k \in 1..(Len(ids) - 1) :
                 DateOfId(store, ids[k]) >= DateOfId(store, ids[k + 1])
       /\ \A p \in (total + 1)..Len(seen.pages) : seen.pages[p] = <<>>

\* The pages cover the matches when no two invoices share a date.
PagesCoverTheMatchesOfDistinctDates ==
  (\A a, b \in Range(store.invoices) : a.date = b.date => a.id = b.id) =>
    C10_PagesCoverTheMatches

====
